---- MODULE Spec2Model ----
(***************************************************************************)
(* Model of go-funcache: the Cache orchestrator (Bust / Cache), the call-  *)
(* chain inspector (wasCalledByCacheBustingFn) and the two in-memory       *)
(* stores (syncMap, cowMap).                                               *)
(*                                                                         *)
(* Every goroutine has a call stack of frames.  A Bust frame stands for    *)
(* Cache.Bust together with the body it is running; a Cache frame          *)
(* stands for Cache.Cache together with the computation fn while that      *)
(* runs; a Closure frame is a plain function of the caller, which may      *)
(* defer calls and may recover a panic.                                    *)
(***************************************************************************)
EXTENDS Integers, Sequences, FiniteSets, TLC

\* ------------------------------------------------------------------ bounds
MaxCalls == 4
MaxCallsConc == 3
MaxDefers == 1
MaxCallsPar == 3
MaxOps == 3
MaxCallsKeys == 3
MaxFib == 5
MaxCallsInit == 3
MaxOpsCow == 3
MaxCallsNil == 3

\* --------------------------------------------------------------- universe
Threads == {"t1", "t2"}
SeqThreads == {"t1"}
Caches == {"c1", "c2"}
Keys == {"k1", "k2"}
\* the keys the goroutines of Spec use
ConcKeys == {"k1"}
\* the results a computation may return
Values == {1, 2}
\* no value: what a failed lookup leaves; not a result of any computation
NoVal == -1
NoKey == "none"
NoThread == "none"

\* keys of several dynamic types, as in TestCacheNil and TestCacheMixedKeys: a
\* key is an interface value, a dynamic type with a value, the value written
\* here as fmt.Sprint prints it
MixedKeys ==
    {[type |-> "string", val |-> "123"], [type |-> "int", val |-> "123"],
     [type |-> "nil", val |-> "<nil>"], [type |-> "string", val |-> "<nil>"]}

KeySlotBySprint(k) == k.val

\* the slot of the map a key selects: the key of map[interface{}]interface{}
\* is the interface value itself, equal to another when both the dynamic types
\* and the values are equal
KeySlot(k) == k

\* closure values passed to Wrap: the function literal (named by the compiler
\* after the place that defines it) and the variables it has captured
Closures ==
    {[loc |-> "funcache.getValueA.func1", env |-> 1],
     [loc |-> "funcache.getValueA.func1", env |-> 2],
     [loc |-> "funcache.TestWrapIsDistinct.func2", env |-> 1]}

getFnNameOfWrap(fn) == "funcache.Wrap"

\* runtime.FuncForPC(reflect.ValueOf(fn).Pointer()).Name()
getFnName(fn) == fn.loc

\* the key Wrap passes to Cache: the name, a string
WrapKey(fn) == [type |-> "string", val |-> getFnName(fn)]

\* the keys of SpecKeys
TypedKeys == MixedKeys \cup {WrapKey(fn) : fn \in Closures}

\* nilCache(): the cache on a nilStore that init() makes for its one call of
\* Bust, and that the tests use
NilCache == "c0"

\* the name init() expects Bust to have
cacheBustingFn == "github.com/aviddiviner/funcache.(*Cache).Bust"

\* the import paths the package is built under: the one cacheBustingFn is
\* written for, and the one the tests name
ExpectedPkg == "github.com/aviddiviner/funcache"
PkgPaths == {ExpectedPkg, "github.com/aviddiviner/go-funcache"}

\* c1 is what NewInMemCache() returns; c2 is New(newCopyOnWriteMap()); c0 is
\* nilCache().
StoreKind(c) ==
    IF c = "c1" THEN "syncMap" ELSE IF c = "c2" THEN "cowMap" ELSE "nilStore"

VARIABLES
    stack,            \* goroutine -> its call stack (sequence of frames)
    mode,             \* goroutine -> "run" | "panic" (a panic is unwinding)
    busting,          \* cache -> Cache.busting, a uint32 as <<high, low>> halves
    m,                \* cache -> the store's map (cowMap: the published snapshot)
    wlock,            \* cache -> holder of the store's write lock, or NoThread
    rlock,            \* cache -> holders of syncMap's read lock
    cacheBustingFnPc, \* the sentinel return address recorded by init()
    pkgPath,          \* the import path the package was built under
    started,          \* goroutine -> "no" | "yes" | "inbust" (started under a Bust)
    budget,           \* calls the goroutines may still make (bound of the model)
    lastRet,          \* history: value returned by the latest completed Cache(c,k)
    recomp,           \* history: how (c,k) was last recomputed by a call that skipped
                      \*   Get: "no" | "bust" | "deferred" (under a deferred Bust)
    ev,               \* history: the call the step just taken has ended
    produced,         \* history: the values computations for (c,k) have returned
    log,              \* history: the values written under (c,k), in the order written
    snapshots,        \* the maps of the cowMap that are still referenced, as made
    published         \* cm.m: which of them the cowMap's atomic.Value holds

vars == <<stack, mode, busting, m, wlock, rlock, cacheBustingFnPc, pkgPath,
          started,
          budget, lastRet, recomp, ev, produced, log, snapshots, published>>

\* what no operation of the package changes after init()
fixed == <<cacheBustingFnPc, pkgPath>>
locks == <<wlock, rlock>>
hist == <<lastRet, recomp>>
trace == <<produced, log>>
cow == <<snapshots, published>>

\* ------------------------------------------------------- uint32 arithmetic
Half == 65536
Zero == <<0, 0>>
One == <<0, 1>>
\* ^uint32(0)
MaxUint32 == <<Half - 1, Half - 1>>

\* atomic.AddUint32: addition modulo 2^32 on <<high, low>> 16-bit halves
AddUint32(x, d) ==
    LET lo == x[2] + d[2]
        hi == x[1] + d[1] + (lo \div Half)
    IN  <<hi % Half, lo % Half>>

\* ---------------------------------------------------------------- frames
BustPc == 1
CachePc == 2
ClosurePc == 3

\* cache.Bust(fn) with fn running; pre is busting as Bust found it, byDefer
\* tells a call run from a defer statement (both history)
BustFrame(c, byDefer) ==
    [kind |-> "Bust", pc |-> "body", cache |-> c, pre |-> busting[c],
     byDefer |-> byDefer]

\* a plain function of the caller and the calls it has deferred
ClosureFrame == [kind |-> "Closure", pc |-> "body", defers |-> <<>>]

\* the return address a frame leaves on the stack
FramePc(f) ==
    CASE f.kind = "Bust" -> BustPc
      [] f.kind = "Cache" -> CachePc
      [] OTHER -> ClosurePc

\* runtime.Callers(skip, batch): up to BatchSize return addresses, innermost
\* first, of the frames of s (outermost first) after skipping `skipped`.
BatchSize == 64

Callers(s, skipped) ==
    LET n == IF Len(s) - skipped < BatchSize THEN Len(s) - skipped ELSE BatchSize
    IN  [i \in 1..(IF n < 0 THEN 0 ELSE n) |-> FramePc(s[Len(s) - skipped - i + 1])]

RECURSIVE getAllCallers(_, _)
getAllCallers(s, skipped) ==
    LET batch == Callers(s, skipped)
    IN  IF Len(batch) < BatchSize
        THEN batch
        ELSE batch \o getAllCallers(s, skipped + Len(batch))

\* the stack walk of s, the stack of the caller of Cache
wasCalledByCacheBustingFn(s) ==
    LET pcs == getAllCallers(s, 0)
    IN  \E i \in 1..Len(pcs) : pcs[i] = cacheBustingFnPc

ShouldGetCountOnly(cnt, s) == cnt = Zero

\* the condition of Cache.Cache under which the store is consulted
ShouldGet(cnt, s) ==
    cnt = Zero \/ ~wasCalledByCacheBustingFn(s)

\* the frame of cache.Cache(k, fn) called with s as the caller's stack.
\* bust: the call skips Get; calls, adds: how often it has called fn and
\* store.Add.  History, as the call found them: old (the stored entry), prev
\* (lastRet), wasRecomp (recomp), sawBusting (busting nonzero); touched: another
\* call has written the entry since.
CacheFrame(c, k, s) ==
    LET get == ShouldGet(busting[c], s)
    IN  [kind |-> "Cache", pc |-> IF get THEN "get" ELSE "fn", cache |-> c,
         key |-> k, data |-> NoVal, bust |-> ~get, calls |-> IF get THEN 0 ELSE 1,
         adds |-> 0, old |-> m[c][KeySlot(k)], prev |-> lastRet[c][k],
         wasRecomp |-> recomp[c][k], sawBusting |-> busting[c] # Zero,
         touched |-> FALSE]

\* ----------------------------------------------------------------- state
Top(t) == stack[t][Len(stack[t])]
DropTop(s) == SubSeq(s, 1, Len(s) - 1)
WithTop(s, f) == [s EXCEPT ![Len(s)] = f]

\* the call the step just taken has ended by a panic or, for a Bust, in either
\* way: for a Bust with its cache and the count it had found
Ev(op) == [op |-> op, cache |-> "none", pre |-> Zero]
NoEv == Ev("none")

\* an unrecovered panic ends the process
Crashed == \E t \in Threads : mode[t] = "panic" /\ stack[t] = <<>>

Running(t) ==
    /\ ~Crashed
    /\ started[t] # "no"
    /\ mode[t] = "run"

\* t is running code of the caller: top level, a Bust body, a computation, a closure
Callable(t) ==
    /\ Running(t)
    /\ IF stack[t] = <<>> THEN TRUE ELSE Top(t).pc \in {"body", "fn"}

\* the number of deferred calls yet to run
RECURSIVE CountDefers(_)
CountDefers(s) ==
    IF s = <<>> THEN 0
    ELSE (IF s[Len(s)].kind = "Closure" THEN Len(s[Len(s)].defers) ELSE 0)
         + CountDefers(DropTop(s))

RECURSIVE SumDefers(_)
SumDefers(T) ==
    IF T = {} THEN 0
    ELSE LET t == CHOOSE x \in T : TRUE IN CountDefers(stack[t]) + SumDefers(T \ {t})

Deferred == SumDefers(Threads)

\* a call may be made while the budget covers it and the calls already deferred
MayCall(t) ==
    /\ Callable(t)
    /\ budget > Deferred

\* the goroutines, the counts and the locks after construction
Fresh ==
    /\ stack = [t \in Threads |-> <<>>]
    /\ mode = [t \in Threads |-> "run"]
    /\ busting = [c \in Caches |-> Zero]
    /\ wlock = [c \in Caches |-> NoThread]
    /\ rlock = [c \in Caches |-> {}]
    /\ cacheBustingFnPc = BustPc
    /\ pkgPath = ExpectedPkg
    /\ started = [t \in Threads |-> IF t \in SeqThreads THEN "yes" ELSE "no"]
    /\ ev = NoEv

\* the maps as make() leaves them, empty, for callers that use the keys KS
Empty(KS) ==
    /\ m = [c \in Caches |-> [j \in {KeySlot(k) : k \in KS} |-> NoVal]]
    /\ lastRet = [c \in Caches |-> [k \in KS |-> NoVal]]
    /\ recomp = [c \in Caches |-> [k \in KS |-> "no"]]
    /\ produced = [c \in Caches |-> [k \in KS |-> {}]]
    /\ log = [c \in Caches |-> [k \in KS |-> <<>>]]
    /\ snapshots = <<[j \in {KeySlot(k) : k \in KS} |-> NoVal]>>
    /\ published = 1

Base ==
    /\ Fresh
    /\ Empty(Keys)

\* the caches just constructed, the main goroutine about to use them
Init ==
    /\ Base
    /\ budget = MaxCallsConc

InitSeq ==
    /\ Base
    /\ budget = MaxCalls

\* --------------------------------------------------------------- Bust
BustEnterAsFlag(n) == One

\* atomic.AddUint32(&cache.busting, 1)
BustEnter(n) == AddUint32(n, One)

BustExitNoDecrement(n) == n

BustExitReset(n) == Zero

\* the deferred atomic.AddUint32(&cache.busting, ^uint32(0)), on return
BustExit(n) == AddUint32(n, MaxUint32)

BustUnwindNotDeferred(n) == n

\* the same deferred call, run while a panic unwinds through Bust
BustUnwind(n) == AddUint32(n, MaxUint32)

\* cache.Bust(fn) is entered: the count is incremented and fn starts
CallBust(t, c) ==
    /\ MayCall(t)
    /\ budget' = budget - 1
    /\ busting' = [busting EXCEPT ![c] = BustEnter(@)]
    /\ stack' = [stack EXCEPT ![t] = Append(@, BustFrame(c, FALSE))]
    /\ ev' = NoEv
    /\ UNCHANGED <<cow, mode, m, locks, fixed, started, hist, trace>>

\* fn has returned: the deferred decrement runs and Bust returns
ReturnBust(t) ==
    /\ Callable(t)
    /\ stack[t] # <<>>
    /\ Top(t).kind = "Bust"
    /\ busting' = [busting EXCEPT ![Top(t).cache] = BustExit(@)]
    /\ stack' = [stack EXCEPT ![t] = DropTop(@)]
    /\ ev' = [op |-> "ReturnBust", cache |-> Top(t).cache, pre |-> Top(t).pre]
    /\ UNCHANGED <<cow, mode, m, locks, fixed, started, budget, hist, trace>>

\* --------------------------------------------------------------- Cache
\* cache.Cache(k, fn) is entered: the condition of its first line is evaluated
\* (the atomic load of busting, then the walk of the caller's own stack)
CallCache(t, c, k) ==
    /\ MayCall(t)
    /\ budget' = budget - 1
    /\ stack' = [stack EXCEPT ![t] = Append(@, CacheFrame(c, k, @))]
    /\ ev' = NoEv
    /\ UNCHANGED <<cow, mode, busting, m, locks, fixed, started, hist, trace>>

AtCache(t, pc) ==
    /\ Running(t)
    /\ stack[t] # <<>>
    /\ Top(t).kind = "Cache"
    /\ Top(t).pc = pc

LookupWrongKey(mp, k) == NoVal

\* value, ok = m[key]: NoVal stands for ok = false
Lookup(mp, k) == mp[KeySlot(k)]

AfterGetIgnoringOk(f, v) == [f EXCEPT !.pc = "fn", !.calls = @ + 1]

AfterGetStoringHit(f, v) ==
    IF v # NoVal
    THEN [f EXCEPT !.pc = "add", !.data = v]
    ELSE [f EXCEPT !.pc = "fn", !.calls = @ + 1]

\* the frame of Cache after store.Get(key) returned v: return data, or call fn
AfterGet(f, v) ==
    IF v # NoVal
    THEN [f EXCEPT !.pc = "ret", !.data = v]
    ELSE [f EXCEPT !.pc = "fn", !.calls = @ + 1]

\* syncMap.Get: sm.RLock()
SyncGetRLock(t) ==
    /\ AtCache(t, "get")
    /\ StoreKind(Top(t).cache) = "syncMap"
    /\ wlock[Top(t).cache] = NoThread
    /\ rlock' = [rlock EXCEPT ![Top(t).cache] = @ \cup {t}]
    /\ stack' = [stack EXCEPT ![t] = WithTop(@, [Top(t) EXCEPT !.pc = "getlocked"])]
    /\ ev' = NoEv
    /\ UNCHANGED <<cow, mode, busting, m, wlock, fixed, started, budget, hist, trace>>

\* syncMap.Get: the lookup and the deferred sm.RUnlock(); Cache then returns
\* the data or goes on to call fn
SyncGetRead(t) ==
    /\ AtCache(t, "getlocked")
    /\ LET f == Top(t) IN
       /\ rlock' = [rlock EXCEPT ![f.cache] = @ \ {t}]
       /\ stack' = [stack EXCEPT ![t] = WithTop(@, AfterGet(f, Lookup(m[f.cache], f.key)))]
    /\ ev' = NoEv
    /\ UNCHANGED <<cow, mode, busting, m, wlock, fixed, started, budget, hist, trace>>

\* cowMap.Get: the atomic load of the snapshot and the lookup, no lock
CowGet(t) ==
    /\ AtCache(t, "get")
    /\ StoreKind(Top(t).cache) = "cowMap"
    /\ LET f == Top(t) IN
       stack' = [stack EXCEPT ![t] = WithTop(@, AfterGet(f, Lookup(m[f.cache], f.key)))]
    /\ ev' = NoEv
    /\ UNCHANGED <<cow, mode, busting, m, locks, fixed, started, budget, hist, trace>>

\* data := fn() returns v
FnReturn(t, v) ==
    /\ AtCache(t, "fn")
    /\ stack' = [stack EXCEPT ![t] = WithTop(@, [Top(t) EXCEPT !.pc = "add", !.data = v])]
    /\ produced' = [produced EXCEPT ![Top(t).cache][Top(t).key] = @ \cup {v}]
    /\ ev' = NoEv
    /\ UNCHANGED <<cow, mode, busting, m, locks, fixed, started, budget, hist, log>>

\* syncMap.Add: sm.Lock()
SyncAddLock(t) ==
    /\ AtCache(t, "add")
    /\ StoreKind(Top(t).cache) = "syncMap"
    /\ wlock[Top(t).cache] = NoThread
    /\ rlock[Top(t).cache] = {}
    /\ wlock' = [wlock EXCEPT ![Top(t).cache] = t]
    /\ stack' = [stack EXCEPT ![t] = WithTop(@, [Top(t) EXCEPT !.pc = "addlocked"])]
    /\ ev' = NoEv
    /\ UNCHANGED <<cow, mode, busting, m, rlock, fixed, started, budget, hist, trace>>

\* cowMap.Add: cm.Lock()
CowAddLock(t) ==
    /\ AtCache(t, "add")
    /\ StoreKind(Top(t).cache) = "cowMap"
    /\ wlock[Top(t).cache] = NoThread
    /\ wlock' = [wlock EXCEPT ![Top(t).cache] = t]
    /\ stack' = [stack EXCEPT ![t] = WithTop(@, [Top(t) EXCEPT !.pc = "addlocked"])]
    /\ ev' = NoEv
    /\ UNCHANGED <<cow, mode, busting, m, rlock, fixed, started, budget, hist, trace>>

SyncStoreEveryKey(mp, k, v) == [j \in DOMAIN mp |-> v]

SyncStoreIfAbsent(mp, k, v) == IF mp[k] # NoVal THEN mp ELSE [mp EXCEPT ![k] = v]

\* sm.m[key] = value
SyncStore(mp, k, v) == [mp EXCEPT ![KeySlot(k)] = v]

CowStoreKeepExisting(mp, k, v) ==
    [j \in DOMAIN mp |-> IF j = k /\ mp[j] = NoVal THEN v ELSE mp[j]]

CowStoreWithoutCopy(mp, k, v) == [j \in DOMAIN mp |-> IF j = k THEN v ELSE NoVal]

\* m2 := a copy of every pair of m1; m2[key] = value; cm.m.Store(m2)
CowStore(mp, k, v) == [j \in DOMAIN mp |-> IF j = KeySlot(k) THEN v ELSE mp[j]]

UnlockForgotten(holder) == holder

\* the deferred sm.Unlock() / cm.Unlock(): the write lock is free again
Unlock(holder) == NoThread

\* history: every other Cache call in progress on (c, k) has seen the entry written
MarkTouched(st, c, k) ==
    [u \in Threads |->
        [i \in 1..Len(st[u]) |->
            IF st[u][i].kind = "Cache" /\ st[u][i].cache = c /\ st[u][i].key = k
            THEN [st[u][i] EXCEPT !.touched = TRUE]
            ELSE st[u][i]]]

\* history: the recomputation was made under a Bust run from a defer statement
UnderDeferredBust(s) ==
    \E i \in 1..Len(s) : s[i].kind = "Bust" /\ s[i].byDefer

\* Add: the write and the deferred Unlock(); Cache is then about to return data.
\* Of the cowMap only the new map remains: no goroutine holds the one before
AddWrite(t) ==
    /\ AtCache(t, "addlocked")
    /\ LET f == Top(t)
           c == f.cache
       IN  /\ m' = [m EXCEPT ![c] = IF StoreKind(c) = "syncMap"
                                    THEN SyncStore(@, f.key, f.data)
                                    ELSE CowStore(@, f.key, f.data)]
           /\ wlock' = [wlock EXCEPT ![c] = Unlock(@)]
           /\ stack' = [MarkTouched(stack, c, f.key) EXCEPT
                           ![t] = WithTop(@, [f EXCEPT !.pc = "ret", !.adds = @ + 1])]
           /\ recomp' = [recomp EXCEPT ![c][f.key] =
                            IF ~f.bust THEN @
                            ELSE IF UnderDeferredBust(stack[t]) THEN "deferred"
                            ELSE "bust"]
    /\ ev' = NoEv
    /\ log' = [log EXCEPT ![Top(t).cache][Top(t).key] = Append(@, Top(t).data)]
    /\ snapshots' = IF StoreKind(Top(t).cache) = "cowMap"
                    THEN <<m'[Top(t).cache]>> ELSE snapshots
    /\ UNCHANGED <<mode, busting, rlock, fixed, started, budget, lastRet, produced,
                   published>>

\* return data
ReturnCache(t) ==
    /\ AtCache(t, "ret")
    /\ lastRet' = [lastRet EXCEPT ![Top(t).cache][Top(t).key] = Top(t).data]
    /\ stack' = [stack EXCEPT ![t] = DropTop(@)]
    /\ ev' = NoEv
    /\ UNCHANGED <<cow, mode, busting, m, locks, fixed, started, budget, recomp, trace>>

\* ------------------------------------------------------- caller's code
\* calls a caller's closure may defer: cache.Bust(body) or cache.Cache(k, fn)
DeferredCalls(KS) ==
    [op : {"Bust"}, cache : Caches, key : {NoKey}] \cup
    [op : {"Cache"}, cache : Caches, key : KS]

\* the caller's code calls a plain closure
CallClosure(t) ==
    /\ MayCall(t)
    /\ budget' = budget - 1
    /\ stack' = [stack EXCEPT ![t] = Append(@, ClosureFrame)]
    /\ ev' = NoEv
    /\ UNCHANGED <<cow, mode, busting, m, locks, fixed, started, hist, trace>>

\* the closure executes a defer statement
DeferCall(t, dc) ==
    /\ MayCall(t)
    /\ stack[t] # <<>>
    /\ Top(t).kind = "Closure"
    /\ Len(Top(t).defers) < MaxDefers
    /\ stack' = [stack EXCEPT ![t] = WithTop(@, [Top(t) EXCEPT !.defers = Append(@, dc)])]
    /\ ev' = NoEv
    /\ UNCHANGED <<cow, mode, busting, m, locks, fixed, started, budget, hist, trace>>

\* the closure returns: its deferred calls run, last deferred first
RunDeferred(t) ==
    /\ Running(t)
    /\ stack[t] # <<>>
    /\ Top(t).kind = "Closure"
    /\ Top(t).defers # <<>>
    /\ budget' = budget - 1
    /\ LET f == Top(t)
           dc == f.defers[Len(f.defers)]
           s == WithTop(stack[t], [f EXCEPT !.pc = "exit", !.defers = DropTop(@)])
       IN  IF dc.op = "Bust"
           THEN /\ busting' = [busting EXCEPT ![dc.cache] = BustEnter(@)]
                /\ stack' = [stack EXCEPT ![t] = Append(s, BustFrame(dc.cache, TRUE))]
           ELSE /\ busting' = busting
                /\ stack' = [stack EXCEPT ![t] = Append(s, CacheFrame(dc.cache, dc.key, s))]
    /\ ev' = NoEv
    /\ UNCHANGED <<cow, mode, m, locks, fixed, started, hist, trace>>

\* the closure has returned and nothing is left deferred
ReturnClosure(t) ==
    /\ Running(t)
    /\ stack[t] # <<>>
    /\ Top(t).kind = "Closure"
    /\ Top(t).defers = <<>>
    /\ stack' = [stack EXCEPT ![t] = DropTop(@)]
    /\ ev' = NoEv
    /\ UNCHANGED <<cow, mode, busting, m, locks, fixed, started, budget, hist, trace>>

\* --------------------------------------------------------------- panics
\* the running code (a computation, a Bust body, a closure) panics; the model
\* leaves out panics that would meet a deferred call of the caller
Panic(t) ==
    /\ Callable(t)
    /\ stack[t] # <<>>
    /\ CountDefers(stack[t]) = 0
    /\ mode' = [mode EXCEPT ![t] = "panic"]
    /\ ev' = NoEv
    /\ UNCHANGED <<cow, stack, busting, m, locks, fixed, started, budget, hist, trace>>

Unwinding(t, kind) ==
    /\ ~Crashed
    /\ mode[t] = "panic"
    /\ stack[t] # <<>>
    /\ Top(t).kind = kind

\* the panic leaves Bust: its deferred decrement runs
UnwindBust(t) ==
    /\ Unwinding(t, "Bust")
    /\ busting' = [busting EXCEPT ![Top(t).cache] = BustUnwind(@)]
    /\ stack' = [stack EXCEPT ![t] = DropTop(@)]
    /\ ev' = [op |-> "UnwindBust", cache |-> Top(t).cache, pre |-> Top(t).pre]
    /\ UNCHANGED <<cow, mode, m, locks, fixed, started, budget, hist, trace>>

UnwindCacheStoringNil(mp, k) == [mp EXCEPT ![k] = NoVal]

\* what a panic in fn leaves of the store: Cache has no deferred call, the
\* statements after fn() are not executed
UnwindCacheStore(mp, k) == mp

\* the panic leaves Cache
UnwindCache(t) ==
    /\ Unwinding(t, "Cache")
    /\ m' = [m EXCEPT ![Top(t).cache] = UnwindCacheStore(@, Top(t).key)]
    /\ stack' = [stack EXCEPT ![t] = DropTop(@)]
    /\ ev' = Ev("UnwindCache")
    /\ UNCHANGED <<cow, mode, busting, locks, fixed, started, budget, hist, trace>>

\* the panic leaves a closure of the caller that does not recover
UnwindClosure(t) ==
    /\ Unwinding(t, "Closure")
    /\ stack' = [stack EXCEPT ![t] = DropTop(@)]
    /\ ev' = NoEv
    /\ UNCHANGED <<cow, mode, busting, m, locks, fixed, started, budget, hist, trace>>

\* a closure of the caller recovers the panic and returns
RecoverClosure(t) ==
    /\ Unwinding(t, "Closure")
    /\ stack' = [stack EXCEPT ![t] = DropTop(@)]
    /\ mode' = [mode EXCEPT ![t] = "run"]
    /\ ev' = NoEv
    /\ UNCHANGED <<cow, busting, m, locks, fixed, started, budget, hist, trace>>

\* ----------------------------------------------------------- goroutines
\* a go statement in the running code of t starts goroutine u on a stack of
\* its own
Go(t, u) ==
    /\ Callable(t)
    /\ started[u] = "no"
    /\ started' = [started EXCEPT ![u] =
                      IF wasCalledByCacheBustingFn(stack[t]) THEN "inbust" ELSE "yes"]
    /\ ev' = NoEv
    /\ UNCHANGED <<cow, stack, mode, busting, m, locks, fixed, budget, hist, trace>>

\* ---------------------------------------------------------------- init
\* init() of the package, run by the main goroutine before anything else
InitFrame == [kind |-> "Init", pc |-> "start"]

\* the function literal init() passes to Bust
CaptureFrame == [ClosureFrame EXCEPT !.pc = "capture"]

\* runtime.Caller(skip) called by the top frame of s: the address in the frame
\* skip levels above it, 0 when there is none
Caller(s, skip) == IF skip < Len(s) THEN FramePc(s[Len(s) - skip]) ELSE 0

\* runtime.FuncForPC(pc).Name(): a function's name starts with the import path
\* of its package; the name of no function is empty
FuncForPCName(pc) ==
    CASE pc = BustPc -> pkgPath \o ".(*Cache).Bust"
      [] pc = CachePc -> pkgPath \o ".(*Cache).Cache"
      [] pc = ClosurePc -> pkgPath \o ".init.func1"
      [] OTHER -> ""

AtInit(t, kind, pc) ==
    /\ Running(t)
    /\ stack[t] # <<>>
    /\ Top(t).kind = kind
    /\ Top(t).pc = pc

\* nilCache().Bust(func() {...}): the count of the new cache is incremented
\* and the function literal starts
InitBust(t) ==
    /\ AtInit(t, "Init", "start")
    /\ busting' = [busting EXCEPT ![NilCache] = BustEnter(@)]
    /\ stack' = [stack EXCEPT ![t] =
                    <<[Top(t) EXCEPT !.pc = "bust"], BustFrame(NilCache, FALSE),
                      CaptureFrame>>]
    /\ ev' = NoEv
    /\ UNCHANGED <<cow, mode, m, locks, fixed, started, budget, hist, trace>>

\* cacheBustingFnPc, _, _, _ = runtime.Caller(1)
InitCapture(t) ==
    /\ AtInit(t, "Closure", "capture")
    /\ cacheBustingFnPc' = Caller(stack[t], 1)
    /\ stack' = [stack EXCEPT ![t] = WithTop(@, [Top(t) EXCEPT !.pc = "captured"])]
    /\ ev' = NoEv
    /\ UNCHANGED <<cow, mode, busting, m, locks, pkgPath, started, budget, hist, trace>>

\* the function literal returns, the deferred decrement runs, Bust returns
InitBustReturn(t) ==
    /\ AtInit(t, "Closure", "captured")
    /\ LET s == DropTop(stack[t])
           b == s[Len(s)]
       IN  /\ busting' = [busting EXCEPT ![b.cache] = BustExit(@)]
           /\ stack' = [stack EXCEPT ![t] = <<[s[1] EXCEPT !.pc = "check"]>>]
           /\ ev' = [op |-> "ReturnBust", cache |-> b.cache, pre |-> b.pre]
    /\ UNCHANGED <<cow, mode, m, locks, fixed, started, budget, hist, trace>>

NameDiffersUnchecked(name) == FALSE

\* fn.Name() != cacheBustingFn
NameDiffers(name) == name # cacheBustingFn

\* panic("funcache: init: unable to identify cache busting func"): nothing
\* recovers a panic of init(), the process ends
InitPanic(t) ==
    /\ AtInit(t, "Init", "check")
    /\ NameDiffers(FuncForPCName(cacheBustingFnPc))
    /\ mode' = [mode EXCEPT ![t] = "panic"]
    /\ stack' = [stack EXCEPT ![t] = <<>>]
    /\ ev' = NoEv
    /\ UNCHANGED <<cow, busting, m, locks, fixed, started, budget, hist, trace>>

\* init() returns: the program starts
InitReturn(t) ==
    /\ AtInit(t, "Init", "check")
    /\ ~NameDiffers(FuncForPCName(cacheBustingFnPc))
    /\ stack' = [stack EXCEPT ![t] = <<>>]
    /\ ev' = NoEv
    /\ UNCHANGED <<cow, mode, busting, m, locks, fixed, started, budget, hist, trace>>

\* ---------------------------------------------------------------- Wrap
\* cache.Wrap(fn), which is inside its call of cache.Cache
WrapFrame(c, fn) == [kind |-> "Wrap", pc |-> "wrap", cache |-> c, fn |-> fn]

\* return cache.Cache(getFnName(fn), fn): Wrap is entered and calls Cache
CallWrap(t, c, fn) ==
    /\ MayCall(t)
    /\ budget' = budget - 1
    /\ LET s == Append(stack[t], WrapFrame(c, fn))
       IN  stack' = [stack EXCEPT ![t] = Append(s, CacheFrame(c, WrapKey(fn), s))]
    /\ ev' = NoEv
    /\ UNCHANGED <<cow, mode, busting, m, locks, fixed, started, hist, trace>>

\* Cache has returned to Wrap, which returns the same value
ReturnWrap(t) ==
    /\ Running(t)
    /\ stack[t] # <<>>
    /\ Top(t).kind = "Wrap"
    /\ stack' = [stack EXCEPT ![t] = DropTop(@)]
    /\ ev' = NoEv
    /\ UNCHANGED <<cow, mode, busting, m, locks, fixed, started, budget, hist, trace>>

\* ---------------------------------------------------- recursive memoization
\* fib(k) of TestFibonacci, using cache c; a, b: what its two Cache calls
\* returned; val: what it returns
FibFrame(c, k) ==
    [kind |-> "Fib", pc |-> "start", cache |-> c, k |-> k, a |-> NoVal,
     b |-> NoVal, val |-> NoVal]

AtFib(t, pc) ==
    /\ Running(t)
    /\ stack[t] # <<>>
    /\ Top(t).kind = "Fib"
    /\ Top(t).pc = pc

\* the test calls fib(k)
FibCall(t, c, k) ==
    /\ Running(t)
    /\ stack[t] = <<>>
    /\ budget > 0
    /\ budget' = 0
    /\ stack' = [stack EXCEPT ![t] = <<FibFrame(c, k)>>]
    /\ ev' = NoEv
    /\ UNCHANGED <<cow, mode, busting, m, locks, fixed, started, hist, trace>>

\* if k < 2 { return k }
FibBase(t) ==
    /\ AtFib(t, "start")
    /\ Top(t).k < 2
    /\ stack' = [stack EXCEPT ![t] =
                    WithTop(@, [Top(t) EXCEPT !.pc = "done", !.val = Top(t).k])]
    /\ ev' = NoEv
    /\ UNCHANGED <<cow, mode, busting, m, locks, fixed, started, budget, hist, trace>>

\* a := cache.Cache(k-1, func() interface{} { return fib(k - 1) })
FibCacheA(t) ==
    /\ AtFib(t, "start")
    /\ Top(t).k >= 2
    /\ LET s == WithTop(stack[t], [Top(t) EXCEPT !.pc = "a"])
       IN  stack' = [stack EXCEPT ![t] =
                        Append(s, CacheFrame(Top(t).cache, Top(t).k - 1, s))]
    /\ ev' = NoEv
    /\ UNCHANGED <<cow, mode, busting, m, locks, fixed, started, budget, hist, trace>>

\* b := cache.Cache(k-2, func() interface{} { return fib(k - 2) })
FibCacheB(t) ==
    /\ AtFib(t, "gota")
    /\ LET s == WithTop(stack[t], [Top(t) EXCEPT !.pc = "b"])
       IN  stack' = [stack EXCEPT ![t] =
                        Append(s, CacheFrame(Top(t).cache, Top(t).k - 2, s))]
    /\ ev' = NoEv
    /\ UNCHANGED <<cow, mode, busting, m, locks, fixed, started, budget, hist, trace>>

\* data := fn(): the computation passed to Cache calls fib for the key
FibCompute(t) ==
    /\ AtCache(t, "fn")
    /\ stack' = [stack EXCEPT ![t] = Append(@, FibFrame(Top(t).cache, Top(t).key))]
    /\ ev' = NoEv
    /\ UNCHANGED <<cow, mode, busting, m, locks, fixed, started, budget, hist, trace>>

\* fib returns to the computation, which returns the value to Cache
FibReturn(t) ==
    /\ AtFib(t, "done")
    /\ Len(stack[t]) > 1
    /\ LET s == DropTop(stack[t])
           f == s[Len(s)]
       IN  /\ stack' = [stack EXCEPT ![t] =
                            WithTop(s, [f EXCEPT !.pc = "add", !.data = Top(t).val])]
           /\ produced' = [produced EXCEPT ![f.cache][f.key] = @ \cup {Top(t).val}]
    /\ ev' = NoEv
    /\ UNCHANGED <<cow, mode, busting, m, locks, fixed, started, budget, hist, log>>

\* Cache returns data to fib: a.(int), then b.(int) and return a + b
FibCacheReturn(t) ==
    /\ AtCache(t, "ret")
    /\ LET s == DropTop(stack[t])
           f == s[Len(s)]
           d == Top(t).data
       IN  stack' = [stack EXCEPT ![t] =
                        WithTop(s, IF f.pc = "a"
                                   THEN [f EXCEPT !.pc = "gota", !.a = d]
                                   ELSE [f EXCEPT !.pc = "done", !.b = d,
                                                  !.val = f.a + d])]
    /\ lastRet' = [lastRet EXCEPT ![Top(t).cache][Top(t).key] = Top(t).data]
    /\ ev' = NoEv
    /\ UNCHANGED <<cow, mode, busting, m, locks, fixed, started, budget, recomp, trace>>

\* ------------------------------------------------- the stores, used directly
\* store.Get(k) called by the caller's code; begin: how many values had been
\* written under (c, k) when the call began, upto: when it read (history)
GetFrame(c, k) ==
    [kind |-> "Get", pc |-> "get", cache |-> c, key |-> k, data |-> NoVal,
     begin |-> Len(log[c][k]), upto |-> 0]

\* store.Add(k, v) called by the caller's code
AddFrame(c, k, v) ==
    [kind |-> "Add", pc |-> "add", cache |-> c, key |-> k, data |-> v]

AtStore(t, kind, pc) ==
    /\ Running(t)
    /\ stack[t] # <<>>
    /\ Top(t).kind = kind
    /\ Top(t).pc = pc

CallGet(t, c, k) ==
    /\ MayCall(t)
    /\ budget' = budget - 1
    /\ stack' = [stack EXCEPT ![t] = Append(@, GetFrame(c, k))]
    /\ ev' = NoEv
    /\ UNCHANGED <<cow, mode, busting, m, locks, fixed, started, hist, trace>>

\* syncMap.Get: sm.RLock()
StoreGetRLock(t) ==
    /\ AtStore(t, "Get", "get")
    /\ StoreKind(Top(t).cache) = "syncMap"
    /\ wlock[Top(t).cache] = NoThread
    /\ rlock' = [rlock EXCEPT ![Top(t).cache] = @ \cup {t}]
    /\ stack' = [stack EXCEPT ![t] = WithTop(@, [Top(t) EXCEPT !.pc = "getlocked"])]
    /\ ev' = NoEv
    /\ UNCHANGED <<cow, mode, busting, m, wlock, fixed, started, budget, hist, trace>>

\* value, ok = m[key] as Get returns it
GotFrame(f) ==
    [f EXCEPT !.pc = "ret", !.data = Lookup(m[f.cache], f.key),
              !.upto = Len(log[f.cache][f.key])]

\* syncMap.Get: the lookup and the deferred sm.RUnlock()
StoreGetRead(t) ==
    /\ AtStore(t, "Get", "getlocked")
    /\ rlock' = [rlock EXCEPT ![Top(t).cache] = @ \ {t}]
    /\ stack' = [stack EXCEPT ![t] = WithTop(@, GotFrame(Top(t)))]
    /\ ev' = NoEv
    /\ UNCHANGED <<cow, mode, busting, m, wlock, fixed, started, budget, hist, trace>>

\* cowMap.Get: the atomic load of the snapshot and the lookup, no lock
StoreCowGet(t) ==
    /\ AtStore(t, "Get", "get")
    /\ StoreKind(Top(t).cache) = "cowMap"
    /\ stack' = [stack EXCEPT ![t] = WithTop(@, GotFrame(Top(t)))]
    /\ ev' = NoEv
    /\ UNCHANGED <<cow, mode, busting, m, locks, fixed, started, budget, hist, trace>>

\* Get returns to the caller's code
StoreGetReturn(t) ==
    /\ AtStore(t, "Get", "ret")
    /\ stack' = [stack EXCEPT ![t] = DropTop(@)]
    /\ ev' = NoEv
    /\ UNCHANGED <<cow, mode, busting, m, locks, fixed, started, budget, hist, trace>>

\* the value of an Add is a fresh one: the number of calls left when it is made
CallAdd(t, c, k) ==
    /\ MayCall(t)
    /\ budget' = budget - 1
    /\ stack' = [stack EXCEPT ![t] = Append(@, AddFrame(c, k, budget))]
    /\ ev' = NoEv
    /\ UNCHANGED <<cow, mode, busting, m, locks, fixed, started, hist, trace>>

\* syncMap.Add: sm.Lock(); cowMap.Add: cm.Lock()
StoreAddLock(t) ==
    /\ AtStore(t, "Add", "add")
    /\ wlock[Top(t).cache] = NoThread
    /\ StoreKind(Top(t).cache) = "syncMap" => rlock[Top(t).cache] = {}
    /\ wlock' = [wlock EXCEPT ![Top(t).cache] = t]
    /\ stack' = [stack EXCEPT ![t] = WithTop(@, [Top(t) EXCEPT !.pc = "addlocked"])]
    /\ ev' = NoEv
    /\ UNCHANGED <<cow, mode, busting, m, rlock, fixed, started, budget, hist, trace>>

\* Add: the write, the deferred Unlock() and the return
StoreAddWrite(t) ==
    /\ AtStore(t, "Add", "addlocked")
    /\ LET f == Top(t)
           c == f.cache
       IN  /\ m' = [m EXCEPT ![c] = IF StoreKind(c) = "syncMap"
                                    THEN SyncStore(@, f.key, f.data)
                                    ELSE CowStore(@, f.key, f.data)]
           /\ wlock' = [wlock EXCEPT ![c] = Unlock(@)]
           /\ log' = [log EXCEPT ![c][f.key] = Append(@, f.data)]
           /\ snapshots' = IF StoreKind(c) = "cowMap" THEN <<m'[c]>> ELSE snapshots
    /\ stack' = [stack EXCEPT ![t] = DropTop(@)]
    /\ ev' = NoEv
    /\ UNCHANGED <<mode, busting, rlock, fixed, started, budget, hist, produced,
                   published>>

\* ------------------------------------------------------------ the nilStore
nilStoreGetFound(k) == 1

\* nilStore.Get: return, with value and ok as declared: nil and false
nilStoreGet(k) == NoVal

\* store.Get(key) of Cache on a nilStore
NilGet(t) ==
    /\ AtCache(t, "get")
    /\ StoreKind(Top(t).cache) = "nilStore"
    /\ stack' = [stack EXCEPT ![t] = WithTop(@, AfterGet(Top(t), nilStoreGet(Top(t).key)))]
    /\ ev' = NoEv
    /\ UNCHANGED <<cow, mode, busting, m, locks, fixed, started, budget, hist, trace>>

nilStoreAddRemembering(mp, k, v) == SyncStore(mp, k, v)

\* nilStore.Add: return; the store is as it was
nilStoreAdd(mp, k, v) == mp

\* store.Add(key, data) of Cache on a nilStore; Cache is then about to
\* return data
NilAdd(t) ==
    /\ AtCache(t, "add")
    /\ StoreKind(Top(t).cache) = "nilStore"
    /\ LET f == Top(t)
           c == f.cache
       IN  /\ m' = [m EXCEPT ![c] = nilStoreAdd(@, f.key, f.data)]
           /\ stack' = [stack EXCEPT
                           ![t] = WithTop(@, [f EXCEPT !.pc = "ret", !.adds = @ + 1])]
           /\ recomp' = [recomp EXCEPT ![c][f.key] =
                            IF ~f.bust THEN @
                            ELSE IF UnderDeferredBust(stack[t]) THEN "deferred"
                            ELSE "bust"]
    /\ ev' = NoEv
    /\ UNCHANGED <<cow, mode, busting, locks, fixed, started, budget, lastRet, trace>>

\* ------------------------------------------- the cowMap, statement by statement
CowCaches == {c \in Caches : StoreKind(c) = "cowMap"}

\* cm.Add(k, v) called by the caller's code; m1: the map it has loaded
CowAddFrame(c, k, v) ==
    [kind |-> "Add", pc |-> "add", cache |-> c, key |-> k, data |-> v, m1 |-> 0]

\* cm.Get(k) called by the caller's code; snap: the map it has loaded.
\* History: begin, upto as in GetFrame; seen: the contents of the map when
\* it was loaded; writer: the goroutine that held the write lock then
CowGetFrame(c, k) ==
    [kind |-> "Get", pc |-> "get", cache |-> c, key |-> k, data |-> NoVal,
     begin |-> Len(log[c][k]), upto |-> 0, snap |-> 0, seen |-> <<>>,
     writer |-> NoThread]

CowCallAdd(t, c, k) ==
    /\ MayCall(t)
    /\ budget' = budget - 1
    /\ stack' = [stack EXCEPT ![t] = Append(@, CowAddFrame(c, k, budget))]
    /\ ev' = NoEv
    /\ UNCHANGED <<cow, mode, busting, m, locks, fixed, started, hist, trace>>

MutexIgnored(holder) == TRUE

\* sync.Mutex: Lock() returns when no goroutine holds the mutex
MutexFree(holder) == holder = NoThread

\* cm.Lock()
CowLock(t) ==
    /\ AtStore(t, "Add", "add")
    /\ MutexFree(wlock[Top(t).cache])
    /\ wlock' = [wlock EXCEPT ![Top(t).cache] = t]
    /\ stack' = [stack EXCEPT ![t] = WithTop(@, [Top(t) EXCEPT !.pc = "locked"])]
    /\ ev' = NoEv
    /\ UNCHANGED <<cow, mode, busting, m, rlock, fixed, started, budget, hist, trace>>

\* m1 := cm.m.Load()
CowLoad(t) ==
    /\ AtStore(t, "Add", "locked")
    /\ stack' = [stack EXCEPT ![t] =
                    WithTop(@, [Top(t) EXCEPT !.pc = "loaded", !.m1 = published])]
    /\ ev' = NoEv
    /\ UNCHANGED <<cow, mode, busting, m, locks, fixed, started, budget, hist, trace>>

CowCopyInPlace(maps, m1, k, v) == [maps EXCEPT ![m1] = CowStore(@, k, v)]

\* m2 := make(...); the loop copies m1 into it; m2[key] = value: the maps
\* with the new map m2 as the last
CowCopy(maps, m1, k, v) == Append(maps, CowStore(maps[m1], k, v))

\* the copy, cm.m.Store(m2), the deferred cm.Unlock() and the return
CowPublish(t) ==
    /\ AtStore(t, "Add", "loaded")
    /\ LET f == Top(t)
           c == f.cache
       IN  /\ snapshots' = CowCopy(snapshots, f.m1, f.key, f.data)
           /\ published' = Len(snapshots')
           /\ m' = [m EXCEPT ![c] = snapshots'[published']]
           /\ wlock' = [wlock EXCEPT ![c] = Unlock(@)]
           /\ log' = [log EXCEPT ![c][f.key] = Append(@, f.data)]
    /\ stack' = [stack EXCEPT ![t] = DropTop(@)]
    /\ ev' = NoEv
    /\ UNCHANGED <<mode, busting, rlock, fixed, started, budget, hist, produced>>

CowCallGet(t, c, k) ==
    /\ MayCall(t)
    /\ budget' = budget - 1
    /\ stack' = [stack EXCEPT ![t] = Append(@, CowGetFrame(c, k))]
    /\ ev' = NoEv
    /\ UNCHANGED <<cow, mode, busting, m, locks, fixed, started, hist, trace>>

\* m := cm.m.Load(), whoever holds the mutex
CowGetLoad(t) ==
    /\ AtStore(t, "Get", "get")
    /\ stack' = [stack EXCEPT ![t] =
                    WithTop(@, [Top(t) EXCEPT
                                   !.pc = "loaded", !.snap = published,
                                   !.seen = snapshots[published],
                                   !.upto = Len(log[Top(t).cache][Top(t).key]),
                                   !.writer = wlock[Top(t).cache]])]
    /\ ev' = NoEv
    /\ UNCHANGED <<cow, mode, busting, m, locks, fixed, started, budget, hist, trace>>

\* value, ok = m[key]
CowGetLookup(t) ==
    /\ AtStore(t, "Get", "loaded")
    /\ stack' = [stack EXCEPT ![t] =
                    WithTop(@, [Top(t) EXCEPT
                                   !.pc = "ret",
                                   !.data = Lookup(snapshots[Top(t).snap], Top(t).key)])]
    /\ ev' = NoEv
    /\ UNCHANGED <<cow, mode, busting, m, locks, fixed, started, budget, hist, trace>>

\* ------------------------------------------------------- specifications
\* a step of goroutine t, its Cache calls using the keys KS
Step(t, KS) ==
    \/ \E c \in Caches : CallBust(t, c)
    \/ ReturnBust(t)
    \/ \E c \in Caches, k \in KS : CallCache(t, c, k)
    \/ SyncGetRLock(t)
    \/ SyncGetRead(t)
    \/ CowGet(t)
    \/ \E v \in Values : FnReturn(t, v)
    \/ SyncAddLock(t)
    \/ CowAddLock(t)
    \/ AddWrite(t)
    \/ ReturnCache(t)
    \/ CallClosure(t)
    \/ \E dc \in DeferredCalls(KS) : DeferCall(t, dc)
    \/ RunDeferred(t)
    \/ ReturnClosure(t)
    \/ Panic(t)
    \/ UnwindBust(t)
    \/ UnwindCache(t)
    \/ UnwindClosure(t)
    \/ RecoverClosure(t)

\* goroutines sharing the caches
Next ==
    \/ \E t \in Threads : Step(t, ConcKeys)
    \/ \E t, u \in Threads : Go(t, u)

Spec == Init /\ [][Next]_vars

\* one goroutine alone
NextSeq == \E t \in SeqThreads : Step(t, Keys)

SpecSeq == InitSeq /\ [][NextSeq]_vars

\* the steps of a Cache call of goroutine t
StepCache(t) ==
    \/ \E c \in Caches, k \in Keys : CallCache(t, c, k)
    \/ SyncGetRLock(t)
    \/ SyncGetRead(t)
    \/ CowGet(t)
    \/ \E v \in Values : FnReturn(t, v)
    \/ SyncAddLock(t)
    \/ CowAddLock(t)
    \/ AddWrite(t)
    \/ ReturnCache(t)

\* goroutines calling Cache on the same caches, with the same and other keys
InitPar ==
    /\ Base
    /\ budget = MaxCallsPar

NextPar ==
    \/ \E t \in Threads : StepCache(t)
    \/ \E t, u \in Threads : Go(t, u)

SpecPar == InitPar /\ [][NextPar]_vars

\* the steps of the Get and Add calls goroutine t makes on the stores
StepStore(t) ==
    \/ \E c \in Caches, k \in Keys : CallGet(t, c, k)
    \/ StoreGetRLock(t)
    \/ StoreGetRead(t)
    \/ StoreCowGet(t)
    \/ StoreGetReturn(t)
    \/ \E c \in Caches, k \in Keys : CallAdd(t, c, k)
    \/ StoreAddLock(t)
    \/ StoreAddWrite(t)

\* goroutines using the two stores directly
InitStore ==
    /\ Base
    /\ budget = MaxOps

NextStore ==
    \/ \E t \in Threads : StepStore(t)
    \/ \E t, u \in Threads : Go(t, u)

SpecStore == InitStore /\ [][NextStore]_vars

\* what every computation of SpecKeys returns: keys and closures are told apart
\* though their computations return the same value
SameValue == {1}

\* the steps of goroutine t calling Cache with keys of several types, and Wrap
StepKeys(t) ==
    \/ \E c \in Caches, k \in MixedKeys : CallCache(t, c, k)
    \/ \E c \in Caches, fn \in Closures : CallWrap(t, c, fn)
    \/ SyncGetRLock(t)
    \/ SyncGetRead(t)
    \/ CowGet(t)
    \/ \E v \in SameValue : FnReturn(t, v)
    \/ SyncAddLock(t)
    \/ CowAddLock(t)
    \/ AddWrite(t)
    \/ ReturnCache(t)
    \/ ReturnWrap(t)

InitKeys ==
    /\ Fresh
    /\ Empty(TypedKeys)
    /\ budget = MaxCallsKeys

NextKeys == \E t \in SeqThreads : StepKeys(t)

SpecKeys == InitKeys /\ [][NextKeys]_vars

\* the steps of goroutine t running fib
StepFib(t) ==
    \/ \E c \in Caches, k \in 0..MaxFib : FibCall(t, c, k)
    \/ FibBase(t)
    \/ FibCacheA(t)
    \/ FibCacheB(t)
    \/ FibCompute(t)
    \/ FibReturn(t)
    \/ FibCacheReturn(t)
    \/ SyncGetRLock(t)
    \/ SyncGetRead(t)
    \/ CowGet(t)
    \/ SyncAddLock(t)
    \/ CowAddLock(t)
    \/ AddWrite(t)

\* the test is about to call fib once
InitFib ==
    /\ Fresh
    /\ Empty(0..MaxFib)
    /\ budget = 1

NextFib == \E t \in SeqThreads : StepFib(t)

\* the goroutine of the test keeps running while it has a step to take
SpecFib == InitFib /\ [][NextFib]_vars /\ WF_vars(NextFib)

\* the steps of init(), and of the program's calls of Bust and Cache
StepInit(t) ==
    \/ InitBust(t)
    \/ InitCapture(t)
    \/ InitBustReturn(t)
    \/ InitPanic(t)
    \/ InitReturn(t)
    \/ \E c \in Caches : CallBust(t, c)
    \/ ReturnBust(t)
    \/ StepCache(t)

\* the program is loaded under one of the import paths: the sentinel has the
\* zero value, init() is about to run
InitProgram ==
    /\ stack = [t \in Threads |-> IF t \in SeqThreads THEN <<InitFrame>> ELSE <<>>]
    /\ mode = [t \in Threads |-> "run"]
    /\ busting = [c \in Caches \cup {NilCache} |-> Zero]
    /\ wlock = [c \in Caches |-> NoThread]
    /\ rlock = [c \in Caches |-> {}]
    /\ cacheBustingFnPc = 0
    /\ pkgPath \in PkgPaths
    /\ started = [t \in Threads |-> IF t \in SeqThreads THEN "yes" ELSE "no"]
    /\ ev = NoEv
    /\ Empty(Keys)
    /\ budget = MaxCallsInit

NextProgram == \E t \in SeqThreads : StepInit(t)

SpecInit == InitProgram /\ [][NextProgram]_vars

\* the steps of goroutine t using a cowMap
StepCow(t) ==
    \/ \E c \in CowCaches, k \in Keys : CowCallAdd(t, c, k)
    \/ CowLock(t)
    \/ CowLoad(t)
    \/ CowPublish(t)
    \/ \E c \in CowCaches, k \in Keys : CowCallGet(t, c, k)
    \/ CowGetLoad(t)
    \/ CowGetLookup(t)
    \/ StoreGetReturn(t)

\* goroutines about to add to and read an empty cowMap
InitCow ==
    /\ Base
    /\ budget = MaxOpsCow

NextCow ==
    \/ \E t \in Threads : StepCow(t)
    \/ \E t, u \in Threads : Go(t, u)

SpecCow == InitCow /\ [][NextCow]_vars

\* the steps of goroutine t using nilCache(): Bust, Cache and Wrap
StepNil(t) ==
    \/ CallBust(t, NilCache)
    \/ ReturnBust(t)
    \/ \E k \in MixedKeys : CallCache(t, NilCache, k)
    \/ \E fn \in Closures : CallWrap(t, NilCache, fn)
    \/ NilGet(t)
    \/ \E v \in Values : FnReturn(t, v)
    \/ NilAdd(t)
    \/ ReturnCache(t)
    \/ ReturnWrap(t)

\* nilCache() beside the two caches, the main goroutine about to use it
InitNil ==
    /\ stack = [t \in Threads |-> <<>>]
    /\ mode = [t \in Threads |-> "run"]
    /\ busting = [c \in Caches \cup {NilCache} |-> Zero]
    /\ wlock = [c \in Caches |-> NoThread]
    /\ rlock = [c \in Caches |-> {}]
    /\ cacheBustingFnPc = BustPc
    /\ pkgPath = ExpectedPkg
    /\ started = [t \in Threads |-> IF t \in SeqThreads THEN "yes" ELSE "no"]
    /\ ev = NoEv
    /\ m = [c \in Caches \cup {NilCache} |->
               [j \in {KeySlot(k) : k \in TypedKeys} |-> NoVal]]
    /\ lastRet = [c \in Caches \cup {NilCache} |-> [k \in TypedKeys |-> NoVal]]
    /\ recomp = [c \in Caches \cup {NilCache} |-> [k \in TypedKeys |-> "no"]]
    /\ produced = [c \in Caches \cup {NilCache} |-> [k \in TypedKeys |-> {}]]
    /\ log = [c \in Caches \cup {NilCache} |-> [k \in TypedKeys |-> <<>>]]
    /\ snapshots = <<[j \in {KeySlot(k) : k \in TypedKeys} |-> NoVal]>>
    /\ published = 1
    /\ budget = MaxCallsNil

NextNil == \E t \in SeqThreads : StepNil(t)

SpecNil == InitNil /\ [][NextNil]_vars

\* ================================================================ claims
\* a Bust invocation is on the stack of t beneath its frame i: what the full
\* stack walk reports for the call of frame i
BustBelow(t, i) == \E j \in 1..(i - 1) : stack[t][j].kind = "Bust"

\* frame i of t is a Cache call that was served from the store
IsHit(t, i) ==
    /\ stack[t][i].kind = "Cache"
    /\ stack[t][i].pc = "ret"
    /\ stack[t][i].calls = 0

\* C1 (idempotent hit, one goroutine, syncMap and cowMap): a Cache(k, g) call
\* made with no Bust on the stack after a Cache(k, f) call has returned does
\* not invoke g, writes nothing and returns the value the latest completed call
\* for k returned.
C1_IdempotentHit ==
    \A t \in Threads : \A i \in 1..Len(stack[t]) :
        LET f == stack[t][i] IN
        (f.kind = "Cache" /\ ~BustBelow(t, i) /\ f.prev # NoVal) =>
            /\ f.calls = 0
            /\ f.adds = 0
            /\ f.pc \in {"get", "getlocked", "ret"}
            /\ (f.pc = "ret" => f.data = f.prev)

C1_Witness ==
    \E t \in Threads : \E i \in 1..Len(stack[t]) :
        /\ IsHit(t, i)
        /\ ~BustBelow(t, i)
        /\ stack[t][i].prev # NoVal
        /\ stack[t][i].data = stack[t][i].prev

\* C2 (Bust forces recomputation), as claimed: a Cache(k, f) call made while a
\* Bust invocation is on the caller's stack, for a key that has a stored entry,
\* skips the store, invokes f once and overwrites the entry with the result.
C2_BustForcesRecomputation ==
    \A t \in Threads : \A i \in 1..Len(stack[t]) :
        LET f == stack[t][i] IN
        (f.kind = "Cache" /\ BustBelow(t, i) /\ f.old # NoVal) =>
            /\ f.bust
            /\ f.calls = 1
            /\ (f.pc = "ret" => f.adds = 1 /\ m[f.cache][f.key] = f.data)

\* C3 (nesting propagates), as claimed: no Cache call made while at least one
\* Bust invocation is on the caller's stack, at any depth, is served from the
\* store.
C3_NestingPropagates ==
    \A t \in Threads : \A i \in 1..Len(stack[t]) :
        BustBelow(t, i) => ~IsHit(t, i)

\* C4 (the fast path never changes the answer), as claimed: in every state, for
\* every cache c and goroutine t, Cache's condition on c (the count of c is
\* nonzero and the walk finds a Bust frame) equals what the walk alone reports.
C4_FastPathEqualsWalk ==
    \A t \in Threads : \A c \in Caches :
        (~ShouldGet(busting[c], stack[t])) = wasCalledByCacheBustingFn(stack[t])

\* C5 (a bust scope ends when Bust returns, one goroutine): a Cache(k, f) call
\* made with no Bust on the stack, for a key that was recomputed inside a Bust
\* body (also a Bust run from a defer statement), does not invoke f and returns
\* the value of the latest recomputation: the stored one, which the latest
\* completed call for k returned.
C5_BustScopeEnds ==
    \A t \in Threads : \A i \in 1..Len(stack[t]) :
        LET f == stack[t][i] IN
        (f.kind = "Cache" /\ ~BustBelow(t, i) /\ f.wasRecomp # "no") =>
            /\ f.calls = 0
            /\ f.pc \in {"get", "getlocked", "ret"}
            /\ (f.pc = "ret" => f.data = m[f.cache][f.key] /\ f.data = f.prev)

C5_Witness ==
    \E t \in Threads : \E i \in 1..Len(stack[t]) :
        /\ IsHit(t, i)
        /\ ~BustBelow(t, i)
        /\ stack[t][i].wasRecomp = "deferred"
        /\ stack[t][i].data = lastRet[stack[t][i].cache][stack[t][i].key]

\* C6 (Bust restores the count on every exit path, one goroutine): when a Bust
\* invocation has just ended, by return or by a panic unwinding through it,
\* nested or not, the count of its cache is what Bust found when it was called.
C6_BustRestoresCount ==
    ev.op \in {"ReturnBust", "UnwindBust"} => busting[ev.cache] = ev.pre

C6_Witness ==
    /\ ev.op = "UnwindBust"
    /\ ev.pre # Zero
    /\ busting[ev.cache] = ev.pre

\* C7 (bust scope does not cross goroutines): a Cache(k, f) call of a goroutine
\* with no Bust frame on its own stack, for a key that has a stored entry, is
\* served from the store and f is not invoked, whatever the count of the cache.
C7_BustStaysOnItsStack ==
    \A t \in Threads : \A i \in 1..Len(stack[t]) :
        LET f == stack[t][i] IN
        (f.kind = "Cache" /\ ~BustBelow(t, i) /\ f.old # NoVal) =>
            /\ ~f.bust
            /\ f.calls = 0
            /\ f.pc \in {"get", "getlocked", "ret"}
            /\ (f.pc = "ret" => f.data # NoVal)

\* B, started inside A's Bust body, is served from the store of c while A is
\* inside Bust on c and B saw the count of c nonzero
C7_Witness ==
    \E a, b \in Threads : \E i \in 1..Len(stack[b]) :
        /\ a # b
        /\ started[b] = "inbust"
        /\ IsHit(b, i)
        /\ ~BustBelow(b, i)
        /\ stack[b][i].old # NoVal
        /\ stack[b][i].sawBusting
        /\ busting[stack[b][i].cache] # Zero
        /\ \E j \in 1..Len(stack[a]) :
              stack[a][j].kind = "Bust" /\ stack[a][j].cache = stack[b][i].cache

\* t is about to write the entry (c, k) of the store
Writes(t, c, k) ==
    /\ stack[t] # <<>>
    /\ Top(t).kind = "Cache"
    /\ Top(t).pc = "addlocked"
    /\ Top(t).cache = c
    /\ Top(t).key = k

\* C8 (independent keys do not interfere, one goroutine): a step changes a store
\* entry only as the Add of a Cache call for that very cache and key, with the
\* result of its computation; no entry is ever removed; and an entry that exists
\* is rewritten only by a call that skipped Get (it ran inside a Bust) or had
\* found the key absent.  Bust itself writes nothing.
C8_IndependentKeys ==
    [][\A c \in Caches : \A k \in Keys :
          /\ m[c][k] # NoVal => m'[c][k] # NoVal
          /\ m'[c][k] # m[c][k] =>
                \E t \in Threads :
                    /\ Writes(t, c, k)
                    /\ m'[c][k] = Top(t).data
                    /\ Top(t).bust \/ Top(t).old = NoVal]_vars

\* k2 is still served from the store after another key of the same cache was
\* recomputed inside a Bust
C8_Witness ==
    \E t \in Threads : \E i \in 1..Len(stack[t]) :
        /\ IsHit(t, i)
        /\ ~BustBelow(t, i)
        /\ recomp[stack[t][i].cache][stack[t][i].key] = "no"
        /\ \E k \in Keys : recomp[stack[t][i].cache][k] # "no"

\* the step by which a panic of the computation leaves the Cache call of t
CacheFails(t) ==
    /\ mode[t] = "panic"
    /\ stack[t] # <<>>
    /\ Top(t).kind = "Cache"
    /\ stack'[t] = DropTop(stack[t])

\* C9 (a failed computation leaves the store untouched), as claimed: when a
\* panic of the computation leaves Cache, the panic goes on to the caller, the
\* call has made no Add and the store is as it was before the call: the entry
\* of the key is the one the call found.
C9_StoreAsBeforeCall ==
    [][\A t \in Threads :
          CacheFails(t) =>
              /\ mode'[t] = "panic"
              /\ Top(t).adds = 0
              /\ m'[Top(t).cache][Top(t).key] = Top(t).old]_vars

\* C9, amended (one goroutine): when a panic of the computation leaves Cache,
\* the panic goes on to the caller, the call has made no Add, the step changes
\* nothing in the store, and the entry of the key is as the call found it
\* unless a Cache call that completed inside the computation wrote it; and a
\* call that finds its key absent invokes its computation.
C9_FailureLeavesStore ==
    [][\A t \in Threads :
          /\ CacheFails(t)
             => /\ mode'[t] = "panic"
                /\ Top(t).adds = 0
                /\ m' = m
                /\ ~Top(t).touched => m'[Top(t).cache][Top(t).key] = Top(t).old
          /\ (/\ mode[t] = "run"
              /\ stack[t] # <<>>
              /\ Top(t).kind = "Cache"
              /\ Top(t).pc \in {"get", "getlocked"}
              /\ m[Top(t).cache][Top(t).key] = NoVal
              /\ Len(stack'[t]) = Len(stack[t])
              /\ stack'[t][Len(stack[t])].pc \notin {"get", "getlocked"})
             => /\ stack'[t][Len(stack[t])].pc = "fn"
                /\ stack'[t][Len(stack[t])].calls = 1]_vars

\* a panic has just left a Cache call and is with its caller
C9_Witness ==
    /\ ev.op = "UnwindCache"
    /\ \E t \in Threads : mode[t] = "panic" /\ stack[t] # <<>>

\* C10 (one invocation, one Add), as claimed: a Cache call invokes its
\* computation at most once; a call that is served from the store has invoked
\* the computation and Store.Add zero times; a call that found its key absent or
\* was made with a Bust on the stack invokes the computation once, then calls
\* Add once with the result.
C10_OneCallOneAdd ==
    \A t \in Threads : \A i \in 1..Len(stack[t]) :
        LET f == stack[t][i] IN
        f.kind = "Cache" =>
            /\ f.pc \in {"get", "getlocked"} => f.calls = 0 /\ f.adds = 0
            /\ f.pc = "fn" => f.calls = 1 /\ f.adds = 0
            /\ f.pc \in {"add", "addlocked"} =>
                  f.calls = 1 /\ f.adds = 0 /\ f.data \in Values
            /\ f.pc = "ret" =>
                  /\ \/ f.calls = 0 /\ f.adds = 0 /\ f.data \in Values
                     \/ /\ f.calls = 1
                        /\ f.adds = 1
                        /\ f.data \in Values
                        /\ ~f.touched => m[f.cache][f.key] = f.data
                  /\ (BustBelow(t, i) \/ f.old = NoVal) => f.calls = 1

\* C11 (concurrent safety of stored values): with goroutines calling Cache on
\* the same caches with the same and with different keys, the value stored
\* under a key, the value a call is about to return and the value the latest
\* call returned are each a value that an invocation of a computation passed
\* for that key has returned.
C11_StoredValuesWereComputed ==
    /\ \A c \in Caches : \A k \in Keys :
          /\ m[c][k] # NoVal => m[c][k] \in produced[c][k]
          /\ lastRet[c][k] # NoVal => lastRet[c][k] \in produced[c][k]
    /\ \A t \in Threads : \A i \in 1..Len(stack[t]) :
          LET f == stack[t][i] IN
          (f.kind = "Cache" /\ f.pc = "ret") =>
              f.data \in produced[f.cache][f.key]

\* all calls are over; two goroutines have computed the same key of a cache at
\* the same time, with different results, and another key is stored too
C11_Witness ==
    /\ budget = 0
    /\ \A t \in Threads : stack[t] = <<>> /\ started[t] # "no"
    /\ \E c \in Caches : \E k1, k2 \in Keys :
          /\ k1 # k2
          /\ produced[c][k1] = Values
          /\ m[c][k1] \in Values
          /\ m[c][k2] \in Values

\* C12 (read-your-writes of the stores): a Get(k) that began after an Add for k
\* had completed returns a value, and that value is the one of the latest Add
\* for k completed when it began or of one written after it; syncMap and
\* cowMap, Adds and Gets of all goroutines interleaved.
C12_GetSeesCompletedAdd ==
    \A t \in Threads : \A i \in 1..Len(stack[t]) :
        LET f == stack[t][i] IN
        (f.kind = "Get" /\ f.pc = "ret" /\ f.begin > 0) =>
            /\ f.data # NoVal
            /\ \E j \in f.begin..f.upto : log[f.cache][f.key][j] = f.data

\* a Get that began after one Add has read the value of a later one
C12_Witness ==
    \E t \in Threads : \E i \in 1..Len(stack[t]) :
        LET f == stack[t][i] IN
        /\ f.kind = "Get"
        /\ f.pc = "ret"
        /\ f.begin > 0
        /\ f.upto > f.begin
        /\ f.data = log[f.cache][f.key][f.upto]

C14_WrapIsCacheByName ==
    /\ \A f, g \in Closures :
          f.loc # g.loc => KeySlot(WrapKey(f)) # KeySlot(WrapKey(g))
    /\ \A t \in Threads : \A i \in 1..(Len(stack[t]) - 1) :
          stack[t][i].kind = "Wrap" =>
              LET w == stack[t][i]
                  f == stack[t][i + 1]
              IN  /\ f.kind = "Cache"
                  /\ f.cache = w.cache
                  /\ f.key = WrapKey(w.fn)
                  /\ f.prev # NoVal => f.calls = 0
                  /\ f.pc = "ret" =>
                        /\ f.data \in produced[w.cache][WrapKey(w.fn)]
                        /\ f.prev # NoVal => f.data = f.prev
                        /\ f.prev = NoVal => f.calls = 1

\* a Wrap call is served from the slot of its closure while the slot of a
\* closure defined elsewhere holds the same value
C14_Witness ==
    \E t \in Threads : \E i \in 1..(Len(stack[t]) - 1) : \E g \in Closures :
        /\ stack[t][i].kind = "Wrap"
        /\ IsHit(t, i + 1)
        /\ g.loc # stack[t][i].fn.loc
        /\ m[stack[t][i].cache][KeySlot(WrapKey(g))] = stack[t][i + 1].data

\* the j-th Fibonacci number
RECURSIVE Fibonacci(_)
Fibonacci(j) == IF j < 2 THEN j ELSE Fibonacci(j - 1) + Fibonacci(j - 2)

\* the call of fib made by the test, once it is made
FibRoot == stack["t1"][1]
FibCalled == stack["t1"] # <<>> /\ stack["t1"][1].kind = "Fib"
FibDone == FibCalled /\ Len(stack["t1"]) = 1 /\ FibRoot.pc = "done"

\* how often the computation for key j of cache c has been invoked: once for
\* every value written, and once for every call now between its miss and
\* its write
FibInvocations(c, j) ==
    Len(log[c][j])
    + Cardinality({i \in 1..Len(stack["t1"]) :
                     /\ stack["t1"][i].kind = "Cache"
                     /\ stack["t1"][i].cache = c
                     /\ stack["t1"][i].key = j
                     /\ stack["t1"][i].calls = 1
                     /\ stack["t1"][i].adds = 0})

\* at every moment a stored entry holds the Fibonacci number of its key and
\* no key's computation has been invoked twice; fib(k) when it has returned
\* has returned the k-th Fibonacci number and has left the other cache alone
FibSafe ==
    /\ \A c \in Caches : \A j \in 0..MaxFib :
           /\ m[c][j] # NoVal => m[c][j] = Fibonacci(j)
           /\ FibInvocations(c, j) <= 1
    /\ FibDone =>
           /\ FibRoot.val = Fibonacci(FibRoot.k)
           /\ \A c \in Caches \ {FibRoot.cache} : \A j \in 0..MaxFib :
                  m[c][j] = NoVal

\* C15 as stated (recursive memoization terminates and is correct): fib(k)
\* when it has returned has left every key j < k mapped to the j-th Fibonacci
\* number; fib(1) returns without calling Cache and leaves key 0 unmapped.
C15_EveryKeyBelowMapped ==
    FibDone => \A j \in 0..(FibRoot.k - 1) :
                   m[FibRoot.cache][j] = Fibonacci(j)

\* C15 (recursive memoization terminates and is correct), amended: fib(k)
\* called on an empty cache returns for every k >= 0, returns the k-th
\* Fibonacci number and invokes the computation of each key at most once; for
\* k >= 2 it leaves exactly the keys j < k mapped, each to the j-th Fibonacci
\* number, and for k < 2 it leaves the store empty.
C15_FibTerminatesCorrect ==
    /\ [](FibSafe
          /\ (FibDone =>
                 \A j \in 0..MaxFib :
                    m[FibRoot.cache][j] =
                        IF FibRoot.k >= 2 /\ j < FibRoot.k
                        THEN Fibonacci(j) ELSE NoVal))
    /\ \A k \in 0..MaxFib :
           (FibCalled /\ FibRoot.k = k) ~> (FibDone /\ FibRoot.k = k)

C15_Witness ==
    /\ FibDone
    /\ FibRoot.k = MaxFib
    /\ FibRoot.val = Fibonacci(MaxFib)
    /\ \A j \in 0..(MaxFib - 1) : Len(log[FibRoot.cache][j]) = 1

\* init() has ended, by returning or by its panic
InitOver ==
    \A t \in Threads : \A i \in 1..Len(stack[t]) : stack[t][i].kind # "Init"

\* a Cache or Bust call of the program is being served or has been served
Served ==
    \/ \E t \in Threads : \E i \in 1..Len(stack[t]) :
           /\ stack[t][i].kind \in {"Cache", "Bust"}
           /\ stack[t][i].cache # NilCache
    \/ \E c \in Caches, k \in Keys : produced[c][k] # {} \/ lastRet[c][k] # NoVal
    \/ budget < MaxCallsInit

\* C17 (self-calibration failure is fatal): init() calls Bust once on the
\* nil-store cache and records the address of the frame above the function
\* literal, which is Bust's; if the name of the function at that address is
\* not the expected name of Bust, init() ends by a panic, the process ends and
\* no Cache or Bust call is ever served; a call is served only with a sentinel
\* that is Bust's address and resolves to the expected name, and from the
\* end of init() on the sentinel is never modified.
C17_CalibrationFailureIsFatal ==
    /\ []((InitOver =>
             /\ cacheBustingFnPc = BustPc
             /\ busting[NilCache] = Zero
             /\ FuncForPCName(cacheBustingFnPc) # cacheBustingFn => Crashed)
          /\ (Served =>
                 /\ InitOver
                 /\ cacheBustingFnPc = BustPc
                 /\ FuncForPCName(cacheBustingFnPc) = cacheBustingFn))
    /\ [][InitOver => cacheBustingFnPc' = cacheBustingFnPc]_vars

C17_Witness ==
    /\ InitOver
    /\ Crashed
    /\ FuncForPCName(cacheBustingFnPc) # cacheBustingFn
    /\ ~Served

\* the calls of Get and of Add on cache c that are in progress
GetsInProgress(c) ==
    {<<t, i>> \in Threads \X (1..(MaxOpsCow + 1)) :
        /\ i <= Len(stack[t])
        /\ stack[t][i].kind = "Get"
        /\ stack[t][i].cache = c}

AddInProgress(c) ==
    \E t \in Threads : \E i \in 1..Len(stack[t]) :
        stack[t][i].kind = "Add" /\ stack[t][i].cache = c

\* the value of the n-th Add to (c, k) in lock order, none for n = 0
Written(c, k, n) == IF n = 0 THEN NoVal ELSE log[c][k][n]

\* C21 (copy-on-write map loses no update and never mutates a published
\* snapshot): when no Add is in progress the published map holds for every
\* key the value of the last Add to it in lock order and nothing for a key
\* never added; a map once made never changes, so the map a reader has loaded
\* is as it was loaded; a Get holds no lock and can take its next step
\* whoever holds the write lock; what it returns is the association of a
\* map published between its beginning and its return: the one before or
\* the one after an Add it overlaps.
C21_CowLosesNoUpdate ==
    /\ [](\A c \in CowCaches :
            /\ m[c] = snapshots[published]
            /\ ~AddInProgress(c) =>
                   \A k \in Keys : Lookup(snapshots[published], k) =
                                       Written(c, k, Len(log[c][k]))
            /\ \A g \in GetsInProgress(c) :
                   LET t == g[1]
                       f == stack[g[1]][g[2]]
                   IN  /\ wlock[c] # t
                       /\ t \notin rlock[c]
                       /\ f.pc = "get" => ENABLED CowGetLoad(t)
                       /\ f.pc = "loaded" => ENABLED CowGetLookup(t)
                       /\ f.pc \in {"loaded", "ret"} =>
                              /\ snapshots[f.snap] = f.seen
                              /\ f.begin <= f.upto
                              /\ f.upto <= Len(log[c][f.key])
                       /\ f.pc = "ret" => f.data = Written(c, f.key, f.upto))
    /\ [][/\ Len(snapshots') >= Len(snapshots)
          /\ \A i \in 1..Len(snapshots) : snapshots'[i] = snapshots[i]]_vars

\* two Adds to different keys have overlapped and completed, and a Get that
\* loaded the map while a writer held the lock has its result while that
\* writer still holds it
C21_Witness ==
    \E c \in CowCaches : \E g \in GetsInProgress(c) :
        LET f == stack[g[1]][g[2]]
        IN  /\ f.pc = "ret"
            /\ f.writer \notin {NoThread, g[1]}
            /\ wlock[c] = f.writer
            /\ Top(f.writer).key = f.key
            /\ f.data = Written(c, f.key, Len(log[c][f.key]))
            /\ \E k \in Keys \ {f.key} : log[c][k] # <<>>

\* C22 (cross-thread hit after a completed call, syncMap and cowMap): a
\* Cache(k, g) call of any goroutine with no Bust frame on its own stack that
\* starts after some Cache(k, f) call on the cache has returned consults the
\* store, does not invoke g, writes nothing and returns a value a computation
\* for the key has returned, whatever the other goroutines do; so a call
\* with no Bust frame on its stack that invokes its computation has found the
\* key absent and began before any call for the key had returned: it
\* overlaps the call that returns first.
C22_HitAfterCompletedCall ==
    \A t \in Threads : \A i \in 1..Len(stack[t]) :
        LET f == stack[t][i] IN
        (f.kind = "Cache" /\ ~BustBelow(t, i)) =>
            /\ f.prev # NoVal =>
                   /\ ~f.bust
                   /\ f.calls = 0
                   /\ f.adds = 0
                   /\ f.pc \in {"get", "getlocked", "ret"}
                   /\ f.pc = "ret" => f.data \in produced[f.cache][f.key]
            /\ f.calls > 0 => f.prev = NoVal /\ f.old = NoVal

\* a goroutine is served from the store the value another goroutine's call,
\* made inside a Bust that is still open, has computed and returned
C22_Witness ==
    \E t, u \in Threads : \E i \in 1..Len(stack[t]) :
        /\ t # u
        /\ IsHit(t, i)
        /\ ~BustBelow(t, i)
        /\ stack[t][i].prev # NoVal
        /\ stack[t][i].data = stack[t][i].prev
        /\ stack[t][i].sawBusting
        /\ recomp[stack[t][i].cache][stack[t][i].key] = "bust"
        /\ stack[u] # <<>>
        /\ Top(u).kind = "Bust"
        /\ Top(u).cache = stack[t][i].cache

\* C23 (null store never remembers): the nilStore holds nothing after any
\* Adds; a Cache call on nilCache(), made directly or by Wrap, inside or
\* outside a Bust, finds its key absent, invokes its computation once after
\* Get (or at once inside a Bust), calls Add once and returns the value
\* that invocation returned.
C23_NilStoreNeverRemembers ==
    /\ \A j \in DOMAIN m[NilCache] : m[NilCache][j] = NoVal
    /\ \A t \in Threads : \A i \in 1..Len(stack[t]) :
           LET f == stack[t][i] IN
           (f.kind = "Cache" /\ f.cache = NilCache) =>
               /\ f.old = NoVal
               /\ f.pc \in {"get", "fn", "add", "ret"}
               /\ f.calls = (IF f.pc = "get" THEN 0 ELSE 1)
               /\ f.adds = (IF f.pc = "ret" THEN 1 ELSE 0)
               /\ f.data = NoVal <=> f.pc \in {"get", "fn"}
               /\ f.pc \in {"add", "ret"} => f.data \in produced[NilCache][f.key]

\* a Wrap call outside any Bust, after a call for the same key has returned
\* (so after its Add), has invoked the closure again and is about to return
\* the new result, not the one returned before
C23_Witness ==
    \E t \in Threads : \E i \in 2..Len(stack[t]) :
        LET f == stack[t][i] IN
        /\ stack[t][i - 1].kind = "Wrap"
        /\ f.kind = "Cache"
        /\ f.cache = NilCache
        /\ ~BustBelow(t, i)
        /\ f.pc = "ret"
        /\ f.calls = 1
        /\ f.prev # NoVal
        /\ f.data # f.prev

\* C16 (reentrant Cache calls never deadlock): a store lock is held only by a
\* goroutine that is inside Get or Add and about to release it, never while a
\* computation runs, so whenever a goroutine waits for a store lock the holder
\* can take its next step; this also with Cache called again inside the
\* computation on the same cache and key, and with other goroutines.
C16_NoLockAcrossComputation ==
    \A c \in Caches :
        /\ wlock[c] # NoThread =>
              /\ stack[wlock[c]] # <<>>
              /\ Top(wlock[c]).kind = "Cache"
              /\ Top(wlock[c]).cache = c
              /\ Top(wlock[c]).pc = "addlocked"
              /\ rlock[c] = {}
              /\ ~Crashed => ENABLED AddWrite(wlock[c])
        /\ \A t \in rlock[c] :
              /\ stack[t] # <<>>
              /\ Top(t).kind = "Cache"
              /\ Top(t).cache = c
              /\ Top(t).pc = "getlocked"
              /\ ~Crashed => ENABLED SyncGetRead(t)

\* t waits for the write lock of c, which u holds, inside a Cache call made by
\* the computation of a Cache call for the same cache and key
C16_Witness ==
    \E t, u \in Threads : \E c \in Caches :
        /\ t # u
        /\ wlock[c] = u
        /\ Len(stack[t]) >= 2
        /\ Top(t).kind = "Cache"
        /\ Top(t).cache = c
        /\ Top(t).pc \in {"get", "add"}
        /\ StoreKind(c) = "syncMap"
        /\ \E i \in 1..(Len(stack[t]) - 1) :
              /\ stack[t][i].kind = "Cache"
              /\ stack[t][i].cache = c
              /\ stack[t][i].key = Top(t).key

\* a Bust invocation on c is on the stack of t beneath its frame i
BustOnBelow(t, i, c) ==
    \E j \in 1..(i - 1) : stack[t][j].kind = "Bust" /\ stack[t][j].cache = c

ActiveBusts(c) ==
    {p \in Threads \X (1..(MaxCalls + 2)) :
        /\ p[2] <= Len(stack[p[1]])
        /\ stack[p[1]][p[2]].kind = "Bust"
        /\ stack[p[1]][p[2]].cache = c}

\* C19 (active-bust count invariant): in every state the count of a Cache is
\* the number of Bust invocations on it in progress, over all goroutines: zero
\* at the start and whenever none is in progress, never wrapped below zero, and
\* so changed by nothing but the entry and the exit of Bust.
C19_CountIsActiveBusts ==
    \A c \in Caches : busting[c] = <<0, Cardinality(ActiveBusts(c))>>

\* two goroutines are inside Bust on the same Cache
C19_Witness ==
    \E c \in Caches : \E p, q \in ActiveBusts(c) :
        /\ p[1] # q[1]
        /\ busting[c] = <<0, 2>>

====
